---- MODULE Spec2Model ----
(***************************************************************************)
(* The smooth scheduling engine of cadence: recurrence-date arithmetic     *)
(* (rhythms.rs), DateTimeOfDay (time.rs) and the slot allocator            *)
(* Schedule::recursive_new (reporting/smooth_schedule.rs).                 *)
(*                                                                         *)
(* Dates are day numbers; day 0 is 2020-12-01 (a Tuesday).  A              *)
(* DateTimeOfDay is a record [date, when] with when in 0..3                *)
(* (NoPreference, Morning, Afternoon, Evening), ordered by (date, when).   *)
(***************************************************************************)
EXTENDS Integers, Sequences, FiniteSets, TLC

VARIABLES
    rules,           \* Cadence.rhythms with each rhythm's recorded events
    start,           \* window start handed to Schedule::new
    limit,           \* window limit handed to Schedule::new
    recurse_limits,  \* BTreeMap<DateTimeOfDay, u64> of recursive_new
    heap,            \* Vec<SmoothRhythm> of the running attempt
    slots,           \* Schedule.slots of the running attempt
    pc,              \* position: "entry", "loop", "done", "error"
    restarts,        \* depth of the recursion of recursive_new
    rhythm,          \* the rhythm of a call of the Rhythm trait
    given,           \* the DateTimeOfDay argument (dtod or last_seen)
    from,            \* the `start` argument of starting_beat
    returned,        \* the DateTimeOfDay the call returned
    call             \* the method called: "none", "next_beat", "prev_beat",
                     \* "starting_beat"

\* The variables of Schedule::new and those of a call of the Rhythm trait.
schedvars == <<rules, start, limit, recurse_limits, heap, slots, pc, restarts>>
beatvars == <<rhythm, given, from, returned, call>>

vars == <<rules, start, limit, recurse_limits, heap, slots, pc, restarts,
          rhythm, given, from, returned, call>>

(***************************************************************************)
(* Bounds of the model.                                                    *)
(***************************************************************************)
MaxRules == 4
MaxWindow == 3
MaxRestarts == 12
MaxLiveRules == 3
MaxBefore == 3
MaxN == 3
MaxGivenDays == 27
MaxAhead == 8
MaxSeedRules == 2
MaxWideRules == 3
MaxLongRules == 3
MaxLongWindow == 10
MaxWideWindow == 5

(***************************************************************************)
(* Calendar (chrono::NaiveDate): succ, pred, day, weekday.                 *)
(***************************************************************************)
\* Lengths of the months December 2020 .. July 2021.
MonthLengths == <<31, 31, 28, 31, 30, 31, 30, 31>>

RECURSIVE DayInMonth(_, _)
DayInMonth(d, m) ==
    IF d < MonthLengths[m] THEN d + 1 ELSE DayInMonth(d - MonthLengths[m], m + 1)

\* NaiveDate::day: day of the month, 1-indexed.
DayOfMonth(d) == DayInMonth(d, 1)

\* NaiveDate::weekday: 0 is Monday .. 6 is Sunday; day 0 is a Tuesday.
Weekday(d) == (d + 1) % 7

(***************************************************************************)
(* TimeOfDay and DateTimeOfDay (time.rs).                                  *)
(***************************************************************************)
NoPreference == 0
Morning == 1
Afternoon == 2
Evening == 3

Dtod(d, w) == [date |-> d, when |-> w]

\* derive(PartialOrd, Ord) on DateTimeOfDay: lexicographic on (date, when).
DtodLt(a, b) == a.date < b.date \/ (a.date = b.date /\ a.when < b.when)
DtodLe(a, b) == a = b \/ DtodLt(a, b)

days_apart(a, b) == IF a.date >= b.date THEN a.date - b.date ELSE b.date - a.date

prev_date(a) == [a EXCEPT !.date = a.date - 1]
succ_date(a) == [a EXCEPT !.date = a.date + 1]

(***************************************************************************)
(* Rhythms (rhythms.rs).  A rhythm is a record                             *)
(*   [kind, p, before, after, events]                                      *)
(* where p is dotm (monthly), dotw (week-daily) or n (every-n-days),       *)
(* before/after the Slider and events the set of DateTimeOfDay recorded    *)
(* for the rhythm's id in Cadence.events.                                  *)
(***************************************************************************)
RECURSIVE NextDotm(_, _)
NextDotm(d, dotm) == IF DayOfMonth(d) = dotm THEN d ELSE NextDotm(d + 1, dotm)

RECURSIVE NextDotw(_, _)
NextDotw(d, dotw) == IF Weekday(d) = dotw THEN d ELSE NextDotw(d + 1, dotw)

\* Variant: the loop of EveryNDays runs `0..=self.n`.
next_naive_beat_n_plus_one(r, d) ==
    CASE r.kind = "daily" -> d + 1
      [] r.kind = "monthly" ->
            NextDotm(IF DayOfMonth(d) = r.p THEN d + 1 ELSE d, r.p)
      [] r.kind = "week-daily" ->
            NextDotw(IF Weekday(d) = r.p THEN d + 1 ELSE d, r.p)
      [] r.kind = "every-n-days" -> d + r.p + 1

next_naive_beat(r, d) ==
    CASE r.kind = "daily" -> d + 1
      [] r.kind = "monthly" ->
            NextDotm(IF DayOfMonth(d) = r.p THEN d + 1 ELSE d, r.p)
      [] r.kind = "week-daily" ->
            NextDotw(IF Weekday(d) = r.p THEN d + 1 ELSE d, r.p)
      [] r.kind = "every-n-days" -> d + r.p

\* Rhythm::next_beat: only the date changes.
next_beat(r, dtod) == [dtod EXCEPT !.date = next_naive_beat(r, dtod.date)]

RECURSIVE PrevDotm(_, _)
PrevDotm(d, dotm) == IF DayOfMonth(d) = dotm THEN d ELSE PrevDotm(d - 1, dotm)

RECURSIVE PrevDotw(_, _)
PrevDotw(d, dotw) == IF Weekday(d) = dotw THEN d ELSE PrevDotw(d - 1, dotw)

\* Variant: the loop of EveryNDays::prev_naive_beat calls date.pred().
EveryNDaysPrev_subtracts(d, n) == d - n

\* EveryNDays::prev_naive_beat: n times date.succ().
EveryNDaysPrev(d, n) == d + n

\* Variant: Monthly and WeekDaily keep a date that already matches.
prev_naive_beat_keeps_match(r, d) ==
    CASE r.kind = "daily" -> d - 1
      [] r.kind = "monthly" -> PrevDotm(d, r.p)
      [] r.kind = "week-daily" -> PrevDotw(d, r.p)
      [] r.kind = "every-n-days" -> EveryNDaysPrev(d, r.p)

prev_naive_beat(r, d) ==
    CASE r.kind = "daily" -> d - 1
      [] r.kind = "monthly" ->
            PrevDotm(IF DayOfMonth(d) = r.p THEN d - 1 ELSE d, r.p)
      [] r.kind = "week-daily" ->
            PrevDotw(IF Weekday(d) = r.p THEN d - 1 ELSE d, r.p)
      [] r.kind = "every-n-days" -> EveryNDaysPrev(d, r.p)

\* Variant: the beat is built from the date alone, without time of day.
prev_beat_no_preference(r, dtod) ==
    Dtod(prev_naive_beat(r, dtod.date), NoPreference)

\* Rhythm::prev_beat: only the date changes.
prev_beat(r, dtod) == [dtod EXCEPT !.date = prev_naive_beat(r, dtod.date)]

slider(r) ==
    IF r.kind = "daily" THEN [before |-> 0, after |-> 0]
    ELSE [before |-> r.before, after |-> r.after]

skip_beat_within_slider(r) == r.kind \in {"monthly", "week-daily"}

\* Rust evaluates an argument once, before the call: Call(Op, x) is Op(x)
\* with x evaluated to a value first.
Call(Op(_), x) == CHOOSE result \in { Op(v) : v \in {x} } : TRUE

\* Variant: `if beat < start { beat = self.next_beat(beat); }`
AdvanceToStart_once(r, beat, st) ==
    IF DtodLt(beat, st) THEN next_beat(r, beat) ELSE beat

\* `while beat < start { beat = self.next_beat(beat); }`
RECURSIVE AdvanceToStart(_, _, _)
AdvanceToStart(r, beat, st) ==
    IF DtodLt(beat, st)
    THEN Call(LAMBDA b : AdvanceToStart(r, b, st), next_beat(r, beat))
    ELSE beat

\* The beat before the while loop.
FirstBeat(r, last_seen, first) ==
    IF skip_beat_within_slider(r)
       /\ days_apart(last_seen, first) < slider(r).before
    THEN next_beat(r, first)
    ELSE first

starting_beat(r, st, last_seen) ==
    Call(LAMBDA beat : AdvanceToStart(r, beat, st),
         Call(LAMBDA first : FirstBeat(r, last_seen, first),
              next_beat(r, last_seen)))

\* The while loop of starting_beat ends: a next_beat that does not move
\* (EveryNDays with n = 0) keeps `beat < start` true for ever.
StartingBeatReturns(r, st, last_seen) ==
    next_beat(r, last_seen) # last_seen \/ ~DtodLt(last_seen, st)

(***************************************************************************)
(* Events::latest_event (core.rs): the latest recorded event of a rhythm.  *)
(***************************************************************************)
None == [date |-> -1, when |-> NoPreference]

latest_event(r) ==
    IF r.events = {} THEN None
    ELSE CHOOSE e \in r.events : \A f \in r.events : DtodLe(f, e)

\* Events::latest_event_before: the latest recorded event of a rhythm that
\* lies before the boundary.
latest_event_before(r, boundary) ==
    LET earlier == { e \in r.events : DtodLt(e, boundary) }
    IN IF earlier = {} THEN None
       ELSE CHOOSE e \in earlier : \A f \in earlier : DtodLe(f, e)

(***************************************************************************)
(* SmoothRhythm (smooth_schedule.rs).  A SmoothRhythm is a record          *)
(*   [heap_key, original_target, remaining_choices, passed_over_choices,   *)
(*    rhythm]                                                              *)
(* heap_key and the remaining choices are pairs <<DateTimeOfDay,           *)
(* priority>>; rhythm is the index of the rhythm in rules.  A Vec is a     *)
(* sequence whose last element is the one pop() removes.                   *)
(***************************************************************************)
Reverse(s) == [i \in 1..Len(s) |-> s[Len(s) + 1 - i]]

Front(s) == SubSeq(s, 1, Len(s) - 1)

Max(a, b) == IF a >= b THEN a ELSE b

\* Variant: the priority counter is not advanced before the "before" loop.
BeforeChoices_priority_from_zero(target, sl) ==
    [i \in 1..sl.before |->
        <<[target EXCEPT !.date = target.date - i], i - 1>>]

\* The choices pushed by the "before" loop: target - 1 .. target - before.
BeforeChoices(target, sl) ==
    [i \in 1..sl.before |-> <<[target EXCEPT !.date = target.date - i], i>>]

\* Variant: the inner loop of the "after" choices runs once more.
AfterChoices_one_more(target, sl) ==
    [i \in 1..sl.after |->
        <<[target EXCEPT !.date = target.date + i + 1], sl.before + i>>]

\* The choices pushed by the "after" loop: target + 1 .. target + after.
AfterChoices(target, sl) ==
    [i \in 1..sl.after |->
        <<[target EXCEPT !.date = target.date + i], sl.before + i>>]

\* The choices in the order new_rc pushes them.
PushedChoices(i, target) ==
    <<<<target, 0>>>> \o BeforeChoices(target, slider(rules[i]))
        \o AfterChoices(target, slider(rules[i]))

\* Variant: the target is read with last() and stays in remaining_choices.
FromReversed_without_pop(i, reversed) ==
    [heap_key |-> reversed[Len(reversed)],
     original_target |-> reversed[Len(reversed)][1],
     remaining_choices |-> reversed,
     passed_over_choices |-> <<>>,
     rhythm |-> i]

\* The SmoothRhythm new_rc builds from the reversed choices.
FromReversed(i, reversed) ==
    [heap_key |-> reversed[Len(reversed)],
     original_target |-> reversed[Len(reversed)][1],
     remaining_choices |-> Front(reversed),
     passed_over_choices |-> <<>>,
     rhythm |-> i]

new_rc(i, target) ==
    Call(LAMBDA reversed : FromReversed(i, reversed),
         Call(LAMBDA t : Reverse(PushedChoices(i, t)), target))

\* Variant: None is returned while one choice remains.
HasNextBestChoice_gives_up_early(s) == Len(s.remaining_choices) > 1

\* next_best_choice returns None exactly when remaining_choices is empty.
HasNextBestChoice(s) == Len(s.remaining_choices) > 0

\* Variant: the choice is taken from the front of remaining_choices.
next_best_choice_from_front(s) ==
    [heap_key |-> s.remaining_choices[1],
     original_target |-> s.original_target,
     remaining_choices |-> Tail(s.remaining_choices),
     passed_over_choices |-> Append(s.passed_over_choices, s.heap_key[1]),
     rhythm |-> s.rhythm]

\* Variant: the choice left behind is not pushed onto passed_over_choices.
next_best_choice_forgets_passed_over(s) ==
    [heap_key |-> s.remaining_choices[Len(s.remaining_choices)],
     original_target |-> s.original_target,
     remaining_choices |-> Front(s.remaining_choices),
     passed_over_choices |-> s.passed_over_choices,
     rhythm |-> s.rhythm]

next_best_choice(s) ==
    [heap_key |-> s.remaining_choices[Len(s.remaining_choices)],
     original_target |-> s.original_target,
     remaining_choices |-> Front(s.remaining_choices),
     passed_over_choices |-> Append(s.passed_over_choices, s.heap_key[1]),
     rhythm |-> s.rhythm]

\* Variant: the next beat is always taken from original_target.
smooth_next_beat_from_original_target(s) ==
    new_rc(s.rhythm, next_beat(rules[s.rhythm], s.original_target))

\* Variant: the next beat is always taken from heap_key.0.
smooth_next_beat_from_heap_key(s) ==
    new_rc(s.rhythm, next_beat(rules[s.rhythm], s.heap_key[1]))

\* SmoothRhythm::next_beat.
smooth_next_beat(s) ==
    new_rc(s.rhythm,
           IF skip_beat_within_slider(rules[s.rhythm])
           THEN next_beat(rules[s.rhythm], s.original_target)
           ELSE next_beat(rules[s.rhythm], s.heap_key[1]))

\* recurse_limits.entry(k).or_insert(1), read side.
LimitOf(rl, k) == IF k \in DOMAIN rl THEN rl[k] ELSE 1

\* The dates dtod_limit visits, in its order: remaining, current, passed over.
VisitedDtods(s) ==
    [i \in 1..Len(s.remaining_choices) |-> s.remaining_choices[i][1]]
        \o <<s.heap_key[1]>> \o s.passed_over_choices

\* Variant: `recurse_limits.insert(k, 1)`.
InsertDefaults_overwrite(rl, keys) ==
    [k \in DOMAIN rl \cup keys |-> IF k \in keys THEN 1 ELSE rl[k]]

\* recurse_limits.entry(k).or_insert(1), write side, for a set of keys.
InsertDefaults(rl, keys) ==
    [k \in DOMAIN rl \cup keys |-> IF k \in DOMAIN rl THEN rl[k] ELSE 1]

RECURSIVE SumLimits(_, _, _)
SumLimits(rl, ds, n) ==
    IF n = 0 THEN 0 ELSE SumLimits(rl, ds, n - 1) + LimitOf(rl, ds[n])

\* Variant: the sum of the limits is not divided by the number of dates.
dtod_limit_sum(s, rl) ==
    Max(SumLimits(rl, VisitedDtods(s), Len(VisitedDtods(s))),
        LimitOf(rl, s.heap_key[1]))

\* Variant: `count / total` is returned as it is.
dtod_limit_mean_only(s, rl) ==
    LET total == Len(VisitedDtods(s))
        count == SumLimits(rl, VisitedDtods(s), total)
    IN IF total <= 0 THEN 0 ELSE count \div total

dtod_limit(s, rl) ==
    LET total == Len(VisitedDtods(s))
        count == SumLimits(rl, VisitedDtods(s), total)
        srhythm_limit == LimitOf(rl, s.heap_key[1])
    IN IF total <= 0 THEN 0 ELSE Max(count \div total, srhythm_limit)

\* The table as dtod_limit leaves it.
LimitsAfterDtodLimit(s, rl) ==
    InsertDefaults(rl, {VisitedDtods(s)[i] : i \in 1..Len(VisitedDtods(s))})

(***************************************************************************)
(* Seeding (push_rhythms_onto_heap and the four calls of recursive_new).   *)
(***************************************************************************)
\* The indices of the rhythms of one kind, in file order (Rhythms::dailies,
\* monthlies, week_dailies, every_n_dailies).
RhythmsOfKind(kind) ==
    SelectSeq([i \in 1..Len(rules) |-> i], LAMBDA i : rules[i].kind = kind)

\* every_n.sort_by(|lhs, rhs| rhs.n.cmp(&lhs.n)): stable, decreasing n.
RECURSIVE InsertByN(_, _)
InsertByN(sorted, i) ==
    IF sorted = <<>> \/ rules[sorted[Len(sorted)]].p >= rules[i].p
    THEN Append(sorted, i)
    ELSE Append(InsertByN(Front(sorted), i), sorted[Len(sorted)])

RECURSIVE SortByN(_, _)
SortByN(is, n) == IF n = 0 THEN <<>> ELSE InsertByN(SortByN(is, n - 1), is[n])

\* The order in which recursive_new hands the rhythms to
\* push_rhythms_onto_heap.
SeedOrder ==
    RhythmsOfKind("daily") \o RhythmsOfKind("monthly")
        \o RhythmsOfKind("week-daily")
        \o SortByN(RhythmsOfKind("every-n-days"),
                   Len(RhythmsOfKind("every-n-days")))

\* last_seen of push_rhythms_onto_heap.
LastSeen(r) == IF latest_event(r) = None THEN start ELSE latest_event(r)

\* target of push_rhythms_onto_heap.
SeedTarget(i) == starting_beat(rules[i], start, LastSeen(rules[i]))

\* Variant: `if target >= limit { continue; }` is missing.
push_rhythms_onto_heap_unbounded(is) ==
    [j \in 1..Len(is) |-> new_rc(is[j], SeedTarget(is[j]))]

\* The heap after the calls of push_rhythms_onto_heap for the rhythms `is`:
\* a rhythm whose target is >= limit is skipped.
push_rhythms_onto_heap(is) ==
    Call(LAMBDA kept :
            [j \in 1..Len(kept) |-> new_rc(kept[j], SeedTarget(kept[j]))],
         SelectSeq(is, LAMBDA i : ~DtodLe(limit, SeedTarget(i))))

(***************************************************************************)
(* heap.sort_by(sort_by): a stable sort, decreasing heap key and, for      *)
(* equal heap keys, decreasing number of remaining choices.                *)
(***************************************************************************)
\* Ord on (DateTimeOfDay, u64).
KeyLt(a, b) == DtodLt(a[1], b[1]) \/ (a[1] = b[1] /\ a[2] < b[2])

\* Variant: `lhs.remaining_choices.len().cmp(&rhs.remaining_choices.len())`.
SortsBefore_choices_swapped(lhs, rhs) ==
    \/ KeyLt(rhs.heap_key, lhs.heap_key)
    \/ /\ rhs.heap_key = lhs.heap_key
       /\ Len(lhs.remaining_choices) < Len(rhs.remaining_choices)

\* sort_by(lhs, rhs) = Less.
SortsBefore(lhs, rhs) ==
    \/ KeyLt(rhs.heap_key, lhs.heap_key)
    \/ /\ rhs.heap_key = lhs.heap_key
       /\ Len(rhs.remaining_choices) < Len(lhs.remaining_choices)

\* The position of h[i] after the stable sort: it follows the elements that
\* sort before it and the equal elements that stood before it.
SortedPosition(h, i) ==
    1 + Cardinality({ j \in 1..Len(h) :
                        \/ SortsBefore(h[j], h[i])
                        \/ (~SortsBefore(h[i], h[j]) /\ j < i) })

SortHeap(h) ==
    [p \in 1..Len(h) |-> h[CHOOSE i \in 1..Len(h) : SortedPosition(h, i) = p]]

(***************************************************************************)
(* One iteration of the while loop of recursive_new.                       *)
(***************************************************************************)
\* srhythm = heap.pop().unwrap() after the sort.
Popped == SortHeap(heap)[Len(heap)]

\* heap after the sort and the pop.
Rest == Front(SortHeap(heap))

target_dtod == Popped.heap_key[1]

\* v.len() after sched.slots.entry(target_dtod).or_insert(Vec::new()).
SlotLen(sl, k) == IF k \in DOMAIN sl THEN Len(sl[k]) ELSE 0

SlotOf(sl, k) == IF k \in DOMAIN sl THEN sl[k] ELSE <<>>

\* Variant: `next_srhythm.heap_key.0 <= limit`.
BelowLimit_inclusive(dtod, lim) == DtodLe(dtod, lim)

\* The test guarding heap.push(next_srhythm).
BelowLimit(dtod, lim) == DtodLt(dtod, lim)

\* Variant: next_srhythm is never pushed.
HeapAfterPlace_drops_next(srhythm, rest) == rest

\* heap after the else branch: the next beat is pushed if it is below limit.
HeapAfterPlace(srhythm, rest) ==
    IF BelowLimit(smooth_next_beat(srhythm).heap_key[1], limit)
    THEN Append(rest, smooth_next_beat(srhythm))
    ELSE rest

\* sched.slots after v.push(srhythm).
SlotsAfterPlace(srhythm) ==
    [k \in DOMAIN slots \cup {srhythm.heap_key[1]} |->
        IF k = srhythm.heap_key[1]
        THEN Append(SlotOf(slots, k), srhythm)
        ELSE slots[k]]

\* sched.slots after entry(target_dtod).or_insert(Vec::new()).
SlotsAfterEntry(srhythm) ==
    [k \in DOMAIN slots \cup {srhythm.heap_key[1]} |-> SlotOf(slots, k)]

\* Variant: `v.len() > dtod_limit`.
Saturated_off_by_one(len, lim) == len > lim

\* The test `v.len() >= dtod_limit`.
Saturated(len, lim) == len >= lim

\* Variant: the next best choice is pushed as it is.
Clamp_missing(s) == s

\* The clamp of the next best choice to the window start.
Clamp(s) ==
    IF DtodLt(s.heap_key[1], start)
    THEN [s EXCEPT !.heap_key = <<start, s.heap_key[2]>>]
    ELSE s

\* Variant: water_mark starts from the limit of the first passed-over choice
\* instead of dtod_limit whenever there is one.
LowestPassedOver_without_dtod_limit(s, rl) ==
    IF s.passed_over_choices = <<>> THEN dtod_limit(s, rl)
    ELSE CHOOSE m \in { LimitOf(rl, s.passed_over_choices[i]) :
                          i \in 1..Len(s.passed_over_choices) } :
            \A i \in 1..Len(s.passed_over_choices) :
                m <= LimitOf(rl, s.passed_over_choices[i])

\* water_mark of the deadlock branch.
\* water_mark after the loop over the passed-over choices: the least of
\* dtod_limit and the limits of the passed-over choices.
LowestPassedOver(s, rl) ==
    CHOOSE m \in {dtod_limit(s, rl)}
                   \cup { LimitOf(rl, s.passed_over_choices[i]) :
                            i \in 1..Len(s.passed_over_choices) } :
        /\ m <= dtod_limit(s, rl)
        /\ \A i \in 1..Len(s.passed_over_choices) :
              m <= LimitOf(rl, s.passed_over_choices[i])

\* Variant: `water_mark += 1` is missing.
WaterMark_no_increment(s, rl) == LowestPassedOver(s, rl)

WaterMark(s, rl) == LowestPassedOver(s, rl) + 1

\* Variant: `if *water < water_mark - 1`.
Fill_skips_highest(rl, wm) ==
    [k \in DOMAIN rl |-> IF rl[k] < wm - 1 THEN wm ELSE rl[k]]

\* Variant: `*water = water_mark` for every entry.
Fill_every_entry(rl, wm) == [k \in DOMAIN rl |-> wm]

\* "Fill to the water mark."
Fill(rl, wm) == [k \in DOMAIN rl |-> IF rl[k] < wm THEN wm ELSE rl[k]]

\* Variant: `start > limit`.
InvalidWindow_strict(st, lim) == DtodLt(lim, st)

\* The test `start >= limit`.
InvalidWindow(st, lim) == DtodLe(lim, st)

EmptyMap == [k \in {} |-> 0]

(***************************************************************************)
(* Inputs: the rhythms file with the events of each rhythm, and the window.*)
(* Day 46 is 2021-01-16, day 47 the 17th, day 48 Monday the 18th.          *)
(***************************************************************************)
Rhythm(kind, p, before, after, events) ==
    [kind |-> kind, p |-> p, before |-> before, after |-> after,
     events |-> events]

RhythmChoices ==
    << Rhythm("daily", 0, 0, 0, {}),
       Rhythm("daily", 0, 0, 0, {Dtod(45, NoPreference)}),
       Rhythm("monthly", 17, 0, 0, {}),
       Rhythm("monthly", 18, 1, 0, {}),
       Rhythm("monthly", 18, 2, 1, {}),
       Rhythm("monthly", 18, 2, 1, {Dtod(40, NoPreference), Dtod(44, Morning)}),
       Rhythm("week-daily", 0, 1, 1, {}),
       Rhythm("every-n-days", 2, 1, 0, {}),
       Rhythm("every-n-days", 1, 0, 0, {}) >>

\* Rhythm files of at most MaxRules lines.
FilesOfLength(n) ==
    { [i \in 1..n |-> RhythmChoices[f[i]]] :
        f \in { g \in [1..n -> 1..Len(RhythmChoices)] :
                  \A i \in 1..(n - 1) : g[i] <= g[i + 1] } }

RhythmFiles == UNION { FilesOfLength(n) : n \in 0..MaxRules }

StartChoices ==
    {Dtod(46, NoPreference), Dtod(46, Morning), Dtod(47, NoPreference)}

\* No method of the Rhythm trait is called from outside Schedule::new.
NoCall ==
    /\ rhythm = RhythmChoices[1]
    /\ given = None
    /\ from = None
    /\ returned = None
    /\ call = "none"

Init ==
    /\ rules \in RhythmFiles
    /\ start \in StartChoices
    /\ \E len \in 0..MaxWindow : limit = Dtod(start.date + len, NoPreference)
    /\ recurse_limits = EmptyMap
    /\ heap = <<>>
    /\ slots = EmptyMap
    /\ pc = "entry"
    /\ restarts = 0
    /\ NoCall

(***************************************************************************)
(* Schedule::recursive_new.                                                *)
(***************************************************************************)
\* `if start >= limit { return Err(..) }`
EnterInvalid ==
    /\ pc = "entry"
    /\ InvalidWindow(start, limit)
    /\ pc' = "error"
    /\ UNCHANGED <<rules, start, limit, recurse_limits, heap, slots, restarts>>
    /\ UNCHANGED beatvars

\* The four push_rhythms_onto_heap calls and the empty Schedule.
EnterSeed ==
    /\ pc = "entry"
    /\ ~InvalidWindow(start, limit)
    /\ heap' = push_rhythms_onto_heap(SeedOrder)
    /\ slots' = EmptyMap
    /\ pc' = "loop"
    /\ UNCHANGED <<rules, start, limit, recurse_limits, restarts>>
    /\ UNCHANGED beatvars

\* The else branch: v.len() < dtod_limit, the srhythm is placed.
Place ==
    /\ pc = "loop"
    /\ heap # <<>>
    /\ \E srhythm \in {Popped}, rest \in {Rest} :
          /\ ~Saturated(SlotLen(slots, srhythm.heap_key[1]),
                        dtod_limit(srhythm, recurse_limits))
          /\ heap' = HeapAfterPlace(srhythm, rest)
          /\ slots' = SlotsAfterPlace(srhythm)
          /\ recurse_limits' = LimitsAfterDtodLimit(srhythm, recurse_limits)
    /\ UNCHANGED <<rules, start, limit, pc, restarts>>
    /\ UNCHANGED beatvars

\* The date is saturated and next_best_choice returns Some.
NextChoice ==
    /\ pc = "loop"
    /\ heap # <<>>
    /\ \E srhythm \in {Popped}, rest \in {Rest} :
          /\ Saturated(SlotLen(slots, srhythm.heap_key[1]),
                       dtod_limit(srhythm, recurse_limits))
          /\ HasNextBestChoice(srhythm)
          /\ heap' = Append(rest, Clamp(next_best_choice(srhythm)))
          /\ slots' = SlotsAfterEntry(srhythm)
          /\ recurse_limits' = LimitsAfterDtodLimit(srhythm, recurse_limits)
    /\ UNCHANGED <<rules, start, limit, pc, restarts>>
    /\ UNCHANGED beatvars

\* Variant: the restart continues with the heap and the Schedule it has.
Relax_keeps_schedule ==
    /\ pc = "loop"
    /\ heap # <<>>
    /\ restarts < MaxRestarts
    /\ \E srhythm \in {Popped} :
          /\ Saturated(SlotLen(slots, srhythm.heap_key[1]),
                       dtod_limit(srhythm, recurse_limits))
          /\ ~HasNextBestChoice(srhythm)
          /\ recurse_limits' =
                Fill(LimitsAfterDtodLimit(srhythm, recurse_limits),
                     WaterMark(srhythm, recurse_limits))
    /\ pc' = "entry"
    /\ restarts' = restarts + 1
    /\ UNCHANGED <<rules, start, limit, heap, slots>>
    /\ UNCHANGED beatvars

\* The date is saturated and next_best_choice returns None: the table is
\* filled to the water mark and recursive_new calls itself.
Relax ==
    /\ pc = "loop"
    /\ heap # <<>>
    /\ restarts < MaxRestarts
    /\ \E srhythm \in {Popped} :
          /\ Saturated(SlotLen(slots, srhythm.heap_key[1]),
                       dtod_limit(srhythm, recurse_limits))
          /\ ~HasNextBestChoice(srhythm)
          /\ recurse_limits' =
                Fill(LimitsAfterDtodLimit(srhythm, recurse_limits),
                     WaterMark(srhythm, recurse_limits))
    /\ heap' = <<>>
    /\ slots' = EmptyMap
    /\ pc' = "entry"
    /\ restarts' = restarts + 1
    /\ UNCHANGED <<rules, start, limit>>
    /\ UNCHANGED beatvars

\* The loop ends: Ok(sched).
Finish ==
    /\ pc = "loop"
    /\ heap = <<>>
    /\ pc' = "done"
    /\ UNCHANGED <<rules, start, limit, recurse_limits, heap, slots, restarts>>
    /\ UNCHANGED beatvars

Next ==
    \/ EnterInvalid
    \/ EnterSeed
    \/ Place
    \/ NextChoice
    \/ Relax
    \/ Finish

Spec == Init /\ [][Next]_vars

\* recursive_new is one sequential call: it runs until it returns.  The
\* rhythm files of this specification have at most MaxLiveRules lines.
LiveInit ==
    /\ rules \in UNION { FilesOfLength(n) : n \in 0..MaxLiveRules }
    /\ start \in StartChoices
    /\ \E len \in 0..MaxWindow : limit = Dtod(start.date + len, NoPreference)
    /\ recurse_limits = EmptyMap
    /\ heap = <<>>
    /\ slots = EmptyMap
    /\ pc = "entry"
    /\ restarts = 0
    /\ NoCall

LiveSpec == LiveInit /\ [][Next]_vars /\ WF_vars(Next)

(***************************************************************************)
(* Schedule::new on rhythms whose recorded events lie before, at and after *)
(* the window start (2021-01-17 is day 47).                                *)
(***************************************************************************)
EventfulRhythmChoices ==
    << Rhythm("daily", 0, 0, 0, {Dtod(46, NoPreference)}),
       Rhythm("monthly", 17, 0, 0, {}),
       Rhythm("monthly", 17, 0, 0, {Dtod(47, NoPreference)}),
       Rhythm("monthly", 18, 1, 0, {Dtod(40, NoPreference)}),
       Rhythm("every-n-days", 2, 1, 0, {Dtod(45, NoPreference)}) >>

EventfulFilesOfLength(n) ==
    { [i \in 1..n |-> EventfulRhythmChoices[f[i]]] :
        f \in { g \in [1..n -> 1..Len(EventfulRhythmChoices)] :
                  \A i \in 1..(n - 1) : g[i] <= g[i + 1] } }

SeedInit ==
    /\ rules \in UNION { EventfulFilesOfLength(n) : n \in 0..MaxSeedRules }
    /\ start \in StartChoices
    /\ \E len \in 0..MaxWindow : limit = Dtod(start.date + len, NoPreference)
    /\ recurse_limits = EmptyMap
    /\ heap = <<>>
    /\ slots = EmptyMap
    /\ pc = "entry"
    /\ restarts = 0
    /\ NoCall

SeedSpec == SeedInit /\ [][Next]_vars

(***************************************************************************)
(* Schedule::new on EveryNDays rhythms whose Slider reaches back as far as *)
(* n days or further, next to a Daily.                                     *)
(***************************************************************************)
WideSliderRhythmChoices ==
    << Rhythm("daily", 0, 0, 0, {}),
       Rhythm("every-n-days", 1, 1, 0, {}),
       Rhythm("every-n-days", 1, 3, 0, {}),
       Rhythm("every-n-days", 2, 2, 1, {}) >>

WideFilesOfLength(n) ==
    { [i \in 1..n |-> WideSliderRhythmChoices[f[i]]] :
        f \in { g \in [1..n -> 1..Len(WideSliderRhythmChoices)] :
                  \A i \in 1..(n - 1) : g[i] <= g[i + 1] } }

WideInit ==
    /\ rules \in UNION { WideFilesOfLength(n) : n \in 0..MaxWideRules }
    /\ start \in StartChoices
    /\ \E len \in 0..MaxWideWindow :
          limit = Dtod(start.date + len, NoPreference)
    /\ recurse_limits = EmptyMap
    /\ heap = <<>>
    /\ slots = EmptyMap
    /\ pc = "entry"
    /\ restarts = 0
    /\ NoCall

WideSpec == WideInit /\ [][Next]_vars

(***************************************************************************)
(* Schedule::new on WeekDaily and Monthly rhythms over a window that holds *)
(* two beats of each: Mondays 2021-01-18 and 25, the 18th and the 25th.    *)
(***************************************************************************)
LongWindowRhythmChoices ==
    << Rhythm("week-daily", 0, 0, 0, {}),
       Rhythm("week-daily", 0, 1, 1, {}),
       Rhythm("monthly", 18, 1, 0, {}),
       Rhythm("monthly", 25, 2, 1, {}) >>

LongFilesOfLength(n) ==
    { [i \in 1..n |-> LongWindowRhythmChoices[f[i]]] :
        f \in { g \in [1..n -> 1..Len(LongWindowRhythmChoices)] :
                  \A i \in 1..(n - 1) : g[i] <= g[i + 1] } }

LongInit ==
    /\ rules \in UNION { LongFilesOfLength(n) : n \in 0..MaxLongRules }
    /\ start \in StartChoices
    /\ \E len \in 0..MaxLongWindow :
          limit = Dtod(start.date + len, NoPreference)
    /\ recurse_limits = EmptyMap
    /\ heap = <<>>
    /\ slots = EmptyMap
    /\ pc = "entry"
    /\ restarts = 0
    /\ NoCall

LongSpec == LongInit /\ [][Next]_vars

(***************************************************************************)
(* Calls of the methods of the Rhythm trait (rhythms.rs) on a rhythm the   *)
(* rhythms file can hold: next_beat, prev_beat and starting_beat.          *)
(***************************************************************************)
\* The rhythms: dotm 1..31, the seven weekdays, n from 0 (parse_u32 accepts
\* any u32), Slider before 0..MaxBefore.
BeatRhythms ==
    {Rhythm("daily", 0, 0, 0, {})}
        \cup { Rhythm("monthly", dotm, b, 0, {}) :
                  dotm \in 1..31, b \in 0..MaxBefore }
        \cup { Rhythm("week-daily", dotw, b, 0, {}) :
                  dotw \in 0..6, b \in 0..MaxBefore }
        \cup { Rhythm("every-n-days", n, b, 0, {}) :
                  n \in 0..MaxN, b \in 0..MaxBefore }

\* The dates given to a call: 2021-01-10 and the days after it.
GivenDtods ==
    { Dtod(d, w) : d \in 40..(39 + MaxGivenDays),
                   w \in {NoPreference, Afternoon} }

\* The `start` arguments of starting_beat for a last_seen.
StartsFor(last_seen) ==
    { Dtod(last_seen.date + ahead, w) :
        ahead \in (0 - 1)..MaxAhead, w \in {NoPreference, Afternoon} }

\* Schedule::new is not running.
NoSchedule ==
    /\ rules = <<>>
    /\ start = Dtod(46, NoPreference)
    /\ limit = Dtod(46, NoPreference)
    /\ recurse_limits = EmptyMap
    /\ heap = <<>>
    /\ slots = EmptyMap
    /\ pc = "entry"
    /\ restarts = 0

\* A behaviour is one call on one rhythm.
BeatInit ==
    /\ rhythm \in BeatRhythms
    /\ given \in GivenDtods
    /\ from = None
    /\ returned = None
    /\ call = "none"
    /\ NoSchedule

CallNextBeat ==
    /\ call = "none"
    /\ call' = "next_beat"
    /\ returned' = next_beat(rhythm, given)
    /\ from' = None
    /\ UNCHANGED <<rhythm, given>>
    /\ UNCHANGED schedvars

CallPrevBeat ==
    /\ call = "none"
    /\ call' = "prev_beat"
    /\ returned' = prev_beat(rhythm, given)
    /\ from' = None
    /\ UNCHANGED <<rhythm, given>>
    /\ UNCHANGED schedvars

CallStartingBeat ==
    /\ call = "none"
    /\ \E st \in StartsFor(given) :
          /\ StartingBeatReturns(rhythm, st, given)
          /\ from' = st
          /\ returned' = starting_beat(rhythm, st, given)
    /\ call' = "starting_beat"
    /\ UNCHANGED <<rhythm, given>>
    /\ UNCHANGED schedvars

BeatNext ==
    \/ CallNextBeat
    \/ CallPrevBeat
    \/ CallStartingBeat

BeatSpec == BeatInit /\ [][BeatNext]_vars

(***************************************************************************)
(* Text (id.rs and line_item/src/lib.rs).  A string is a sequence of       *)
(* characters, a character a one-letter string; "e-acute" stands for the   *)
(* two-byte character U+00E9.                                              *)
(***************************************************************************)
ID_LENGTH_LB == 4
ID_LENGTH_UB == 8

MaxIdBody == 9
MaxLine == 5

\* The UTF-8 length of a character and of a string (str::len).
ByteLen(c) == IF c = "e-acute" THEN 2 ELSE 1

RECURSIVE StrLen(_)
StrLen(s) == IF s = <<>> THEN 0 ELSE ByteLen(Head(s)) + StrLen(Tail(s))

\* The first byte of a character.
Code(c) ==
    CASE c = "\t" -> 9
      [] c = "\n" -> 10
      [] c = " " -> 32
      [] c = "-" -> 45
      [] c = "7" -> 55
      [] c = ":" -> 58
      [] c = "Z" -> 90
      [] c = "a" -> 97
      [] c = "d" -> 100
      [] c = "i" -> 105
      [] c = "e-acute" -> 195

\* char::is_ascii_alphanumeric.
is_ascii_alphanumeric(c) ==
    \/ Code(c) \in 48..57
    \/ Code(c) \in 65..90
    \/ Code(c) \in 97..122

\* char::is_whitespace, of the characters above.
is_whitespace(c) == c \in {" ", "\t", "\n"}

\* str::starts_with.
starts_with(s, prefix) ==
    Len(s) >= Len(prefix) /\ SubSeq(s, 1, Len(prefix)) = prefix

IdPrefix == <<"i", "d", ":">>

\* `if id.starts_with("id:") { id.remove(0) three times }`
StripIdPrefix(s) ==
    IF starts_with(s, IdPrefix) THEN SubSeq(s, 4, Len(s)) ELSE s

\* Variant: `id.len() <= ID_LENGTH_LB || id.len() >= ID_LENGTH_UB`.
BadIdLength_exclusive(n) == n <= ID_LENGTH_LB \/ n >= ID_LENGTH_UB

\* `id.len() < ID_LENGTH_LB || id.len() > ID_LENGTH_UB`
BadIdLength(n) == n < ID_LENGTH_LB \/ n > ID_LENGTH_UB

\* ID::new: None, or the ID with its id field.
ID_new(s) ==
    LET id == StripIdPrefix(s)
    IN IF BadIdLength(StrLen(id)) THEN None
       ELSE IF \E j \in 1..Len(id) : ~is_ascii_alphanumeric(id[j]) THEN None
       ELSE [id |-> id]

\* str::trim: leading and trailing whitespace removed.
RECURSIVE trim_start(_)
trim_start(s) ==
    IF s # <<>> /\ is_whitespace(Head(s)) THEN trim_start(Tail(s)) ELSE s

RECURSIVE trim_end(_)
trim_end(s) ==
    IF s # <<>> /\ is_whitespace(s[Len(s)]) THEN trim_end(Front(s)) ELSE s

trim(s) == trim_end(trim_start(s))

\* str::find of a character: the first index, 0 for None.
find(s, c) ==
    IF \E j \in 1..Len(s) : s[j] = c
    THEN CHOOSE j \in 1..Len(s) : s[j] = c /\ \A h \in 1..(j - 1) : s[h] # c
    ELSE 0

\* str::split(" "): the pieces between the spaces, empty pieces included.
RECURSIVE split(_)
split(s) ==
    IF find(s, " ") = 0 THEN <<s>>
    ELSE <<SubSeq(s, 1, find(s, " ") - 1)>>
            \o split(SubSeq(s, find(s, " ") + 1, Len(s)))

\* BTreeMap::insert.
MapInsert(m, key, value) ==
    [k \in DOMAIN m \cup {key} |-> IF k = key THEN value ELSE m[k]]

NoWords == [k \in {} |-> <<>>]

\* The for loop of LineItem::new over the first n elements: the normal words
\* and the command map.
RECURSIVE ParseElems(_, _)
ParseElems(elems, n) ==
    IF n = 0 THEN [normal |-> <<>>, command |-> NoWords]
    ELSE LET before == ParseElems(elems, n - 1)
             elem == elems[n]
             idx == find(elem, ":")
         IN IF idx # 0
            THEN [before EXCEPT !.command =
                     MapInsert(@, SubSeq(elem, 1, idx),
                               SubSeq(elem, idx + 1, Len(elem)))]
            ELSE IF elem # <<>>
            THEN [before EXCEPT !.normal = Append(@, elem)]
            ELSE before

\* [&str]::join(" ").
RECURSIVE join(_)
join(words) ==
    IF words = <<>> THEN <<>>
    ELSE IF Len(words) = 1 THEN words[1]
    ELSE words[1] \o <<" ">> \o join(Tail(words))

SPECIAL_CHARS == {":", "\r", "\n"}

\* Description::new returns Some.
DescriptionIsValid(desc) == \A j \in 1..Len(desc) : desc[j] \notin SPECIAL_CHARS

\* LineItem::new: None, or the LineItem with its desc and cmdw fields.
LineItem_new(line) ==
    LET parsed == ParseElems(split(trim(line)), Len(split(trim(line))))
        desc == join(parsed.normal)
    IN IF DescriptionIsValid(desc)
       THEN [desc |-> desc, cmdw |-> parsed.command]
       ELSE None

\* Ord on String: byte-wise lexicographic.
RECURSIVE StrLt(_, _)
StrLt(a, b) ==
    IF b = <<>> THEN FALSE
    ELSE IF a = <<>> THEN TRUE
    ELSE IF Code(Head(a)) # Code(Head(b)) THEN Code(Head(a)) < Code(Head(b))
    ELSE StrLt(Tail(a), Tail(b))

\* The loop of repr over the command words by increasing key.
RECURSIVE ReprWords(_, _)
ReprWords(cmdw, keys) ==
    IF keys = {} THEN <<>>
    ELSE LET key == CHOOSE x \in keys : \A y \in keys \ {x} : StrLt(x, y)
         IN <<" ">> \o key \o cmdw[key] \o ReprWords(cmdw, keys \ {key})

\* LineItem::repr.
repr(li) == li.desc \o ReprWords(li.cmdw, DOMAIN li.cmdw)

\* The strings handed to ID::new: "id:" zero to two times, then up to
\* MaxIdBody letters of which at most one is not "a".
IdStrings ==
    { Call(LAMBDA body : IF copies = 0 THEN body
                         ELSE IF copies = 1 THEN IdPrefix \o body
                         ELSE IdPrefix \o IdPrefix \o body,
           [j \in 1..n |-> IF j = pos THEN c ELSE "a"]) :
        copies \in 0..2, n \in 0..MaxIdBody, pos \in 0..MaxIdBody,
        c \in {"7", "Z", ":", "-", "e-acute", " ", "i"} }

\* The lines handed to LineItem::new: up to MaxLine characters.
Lines ==
    UNION { [1..n -> {"a", ":", " ", "\t", "\n"}] : n \in 0..MaxLine }

\* A behaviour is one call on one string.
TextInit ==
    /\ given \in IdStrings \cup Lines
    /\ rhythm = RhythmChoices[1]
    /\ from = None
    /\ returned = None
    /\ call = "none"
    /\ NoSchedule

CallIDNew ==
    /\ call = "none"
    /\ call' = "ID::new"
    /\ returned' = ID_new(given)
    /\ UNCHANGED <<rhythm, given, from>>
    /\ UNCHANGED schedvars

CallLineItemNew ==
    /\ call = "none"
    /\ call' = "LineItem::new"
    /\ returned' = LineItem_new(given)
    /\ UNCHANGED <<rhythm, given, from>>
    /\ UNCHANGED schedvars

TextNext ==
    \/ CallIDNew
    \/ CallLineItemNew

TextSpec == TextInit /\ [][TextNext]_vars

(***************************************************************************)
(* Schedule::plumbing: the events (id, when) of the schedule, by           *)
(* increasing slot key and, within a slot, in the order of assignment.     *)
(***************************************************************************)
\* Variant: the slots are visited by decreasing key.
RECURSIVE PlumbingOf_descending(_, _)
PlumbingOf_descending(sl, keys) ==
    IF keys = {} THEN <<>>
    ELSE LET k == CHOOSE x \in keys : \A y \in keys : DtodLe(y, x)
         IN [i \in 1..Len(sl[k]) |-> [id |-> sl[k][i].rhythm, when |-> k]]
                \o PlumbingOf_descending(sl, keys \ {k})

RECURSIVE PlumbingOf(_, _)
PlumbingOf(sl, keys) ==
    IF keys = {} THEN <<>>
    ELSE LET k == CHOOSE x \in keys : \A y \in keys : DtodLe(x, y)
         IN [i \in 1..Len(sl[k]) |-> [id |-> sl[k][i].rhythm, when |-> k]]
                \o PlumbingOf(sl, keys \ {k})

plumbing == PlumbingOf(slots, DOMAIN slots)

\* Rhythm::human_line without the description: the words after it.
human_line(r) ==
    CASE r.kind = "daily" -> <<"every day">>
      [] r.kind = "monthly" -> <<"every", r.p, "day of the month">>
      [] r.kind = "week-daily" -> <<"every", r.p>>
      [] r.kind = "every-n-days" -> <<"every", r.p, "days">>

\* Schedule::porcelain: format!("{} @ {}", s.rhythm.human_line(), when) for
\* the same two nested loops as plumbing.
RECURSIVE PorcelainOf(_, _)
PorcelainOf(sl, keys) ==
    IF keys = {} THEN <<>>
    ELSE LET k == CHOOSE x \in keys : \A y \in keys : DtodLe(x, y)
         IN [i \in 1..Len(sl[k]) |->
                <<human_line(rules[sl[k][i].rhythm]), "@", k>>]
                \o PorcelainOf(sl, keys \ {k})

porcelain == PorcelainOf(slots, DOMAIN slots)

(***************************************************************************)
(* Vocabulary of the properties.                                           *)
(***************************************************************************)
\* The SmoothRhythms of the schedule with the slot each one is in.
Placed ==
    UNION { { [key |-> k, s |-> slots[k][i]] : i \in 1..Len(slots[k]) } :
              k \in DOMAIN slots }

\* The dates (without time of day) of the events of the output, in order.
OutputDates == [i \in 1..Len(plumbing) |-> plumbing[i].when.date]

\* The slot keys assigned to rhythm i, in output order.
AssignedTo(i) ==
    LET mine == SelectSeq(plumbing, LAMBDA e : e.id = i)
    IN [j \in 1..Len(mine) |-> mine[j].when]

\* The number of SmoothRhythms assigned to calendar date d.
RECURSIVE CountOnDate(_, _)
CountOnDate(d, keys) ==
    IF keys = {} THEN 0
    ELSE LET k == CHOOSE x \in keys : TRUE
         IN (IF k.date = d THEN Len(slots[k]) ELSE 0)
                + CountOnDate(d, keys \ {k})

\* beat, next(beat), next(next(beat)), .. as long as they are below limit.
RECURSIVE BeatsBelowLimit(_, _)
BeatsBelowLimit(r, beat) ==
    IF ~DtodLt(beat, limit) THEN <<>>
    ELSE <<beat>> \o BeatsBelowLimit(r, next_beat(r, beat))

WindowIsValid ==
    start.date < limit.date \/ (start.date = limit.date /\ start.when < limit.when)

----------------------------------------------------------------------------
(***************************************************************************)
(* C1: Schedule::new with start >= limit (start = limit included) returns  *)
(* an error and no Schedule: the run never seeds, never assigns and never  *)
(* returns Ok.                                                             *)
(***************************************************************************)
C1_InvalidWindowIsAnError ==
    ~WindowIsValid =>
        /\ pc \in {"entry", "error"}
        /\ heap = <<>>
        /\ slots = EmptyMap

C1_Witness == pc = "error" /\ start = limit /\ Len(rules) > 0

(***************************************************************************)
(* C2: with one Daily rule and a window of whole days [start, limit), the  *)
(* returned schedule holds exactly one assignment on each date of the      *)
(* window, in date order, whatever the history of the rule.                *)
(***************************************************************************)
C2_OneDailyFillsWindow ==
    (/\ pc = "done"
     /\ Len(rules) = 1
     /\ rules[1].kind = "daily"
     /\ start.when = limit.when)
        => OutputDates = [i \in 1..(limit.date - start.date) |-> start.date + i - 1]

(***************************************************************************)
(* C3: whenever a Candidate is placed on a date, the number of Candidates  *)
(* on that date right after the placement is at most the demand estimate   *)
(* (dtod_limit) computed for the Candidate in that iteration.              *)
(***************************************************************************)
C3_PlacementWithinDemand ==
    [][(/\ pc = "loop"
        /\ heap # <<>>
        /\ SlotLen(slots', target_dtod) > SlotLen(slots, target_dtod))
          => SlotLen(slots', target_dtod) <= dtod_limit(Popped, recurse_limits)]_vars

C3_Witness == \E k \in DOMAIN slots : Len(slots[k]) >= 2

C5_AssignedDateIsAChoice ==
    pc = "done" =>
        \A a \in Placed :
            a.key.date \in
                (a.s.original_target.date - slider(rules[a.s.rhythm]).before)
                  .. (a.s.original_target.date + slider(rules[a.s.rhythm]).after)

\* A returned schedule with a shifted assignment and one raised to start.
C5_Witness ==
    /\ pc = "done"
    /\ \E a \in Placed : a.key.date > a.s.original_target.date
    /\ \E a \in Placed :
          /\ a.key = start
          /\ a.s.original_target.date - a.s.heap_key[2] < start.date
          /\ a.s.heap_key[2] \in 1..slider(rules[a.s.rhythm]).before

(***************************************************************************)
(* C6: for every rule set and every window with start < limit,             *)
(* Schedule::new terminates: after finitely many restarts the last attempt *)
(* empties the heap and returns the Schedule.                              *)
(***************************************************************************)
C6_Terminates == WindowIsValid ~> (pc = "done" /\ heap = <<>>)

C6_Witness == pc = "done" /\ restarts >= 3

(***************************************************************************)
(* C7: in the returned schedule the number of assignments on a date is at  *)
(* most that date's capacity in the final recursion-limit table (1 where   *)
(* the date has no entry).                                                 *)
(***************************************************************************)
C7_CountWithinOwnCapacity ==
    pc = "done" =>
        \A k \in DOMAIN slots : Len(slots[k]) <= LimitOf(recurse_limits, k)

(***************************************************************************)
(* C7, amended: in the returned schedule the number of assignments on a    *)
(* date is at most the largest final capacity among the dates of the       *)
(* choice set (remaining, active and passed-over dates) of the occurrence  *)
(* assigned there last; it can exceed the date's own capacity.             *)
(***************************************************************************)
C7_CountWithinNeighbourhoodCapacity ==
    pc = "done" =>
        \A k \in DOMAIN slots :
            slots[k] # <<>> =>
                \E i \in 1..Len(VisitedDtods(slots[k][Len(slots[k])])) :
                    Len(slots[k]) <=
                        LimitOf(recurse_limits,
                                VisitedDtods(slots[k][Len(slots[k])])[i])

\* A returned schedule with a date holding more than its own capacity.
C7_Witness ==
    /\ pc = "done"
    /\ \E k \in DOMAIN slots : Len(slots[k]) > LimitOf(recurse_limits, k)

(***************************************************************************)
(* C9: in the returned schedule a rule with Slider (0,0) is assigned       *)
(* exactly the dates s, next(s), next(next(s)), .. below limit, where s is *)
(* its starting occurrence (such a rule meets no saturated date in the     *)
(* attempt that returns).                                                  *)
(***************************************************************************)
C9_InflexibleRuleGetsItsBeats ==
    pc = "done" =>
        \A i \in 1..Len(rules) :
            slider(rules[i]) = [before |-> 0, after |-> 0] =>
                AssignedTo(i) = BeatsBelowLimit(rules[i], SeedTarget(i))

C9_Witness ==
    /\ pc = "done"
    /\ restarts = 0
    /\ \E i \in 1..Len(rules) :
          /\ slider(rules[i]) = [before |-> 0, after |-> 0]
          /\ Len(AssignedTo(i)) >= 2

(***************************************************************************)
(* C10: three Monthly rules with dotm = 18 and Slider (2,1) whose starting *)
(* occurrence is the same 18th, an empty capacity table and a window that  *)
(* contains days 16 to 18 of that month and no other 18th: the returned    *)
(* schedule has one of them on day 18, one on day 17, one on day 16, none  *)
(* on day 19, and no restart occurs.                                       *)
(***************************************************************************)
ScenarioB ==
    /\ Len(rules) = 3
    /\ \A i \in 1..3 :
          /\ rules[i].kind = "monthly"
          /\ rules[i].p = 18
          /\ slider(rules[i]) = [before |-> 2, after |-> 1]
          /\ SeedTarget(i) = SeedTarget(1)
    /\ SeedTarget(1).date = 48
    /\ start.date <= 46
    /\ limit.date \in 49..78

C10_ThreeMonthliesSpread ==
    ScenarioB =>
        /\ restarts = 0
        /\ pc = "done" =>
              /\ CountOnDate(48, DOMAIN slots) = 1
              /\ CountOnDate(47, DOMAIN slots) = 1
              /\ CountOnDate(46, DOMAIN slots) = 1
              /\ CountOnDate(49, DOMAIN slots) = 0
              /\ Len(plumbing) = 3

C10_Witness ==
    ScenarioB /\ pc = "done" /\ \A i \in 1..3 : rules[i].events = {}

(***************************************************************************)
(* C11: a rule set holding one EveryNDays rule with n = 1 and Slider (0,0) *)
(* and a rule set holding one Daily rule with the same history yield the   *)
(* same assigned dates in the same order: the schedule returned for either *)
(* rule is the sequence of beats of the other one, from the other one's    *)
(* starting beat, below limit.                                             *)
(***************************************************************************)
IsDailyLike(r) ==
    \/ r.kind = "daily"
    \/ /\ r.kind = "every-n-days"
       /\ r.p = 1
       /\ slider(r) = [before |-> 0, after |-> 0]

\* The Daily rule for an EveryNDays rule and the reverse, same history.
DailyTwin(r) ==
    IF r.kind = "daily"
    THEN Rhythm("every-n-days", 1, 0, 0, r.events)
    ELSE Rhythm("daily", 0, 0, 0, r.events)

C11_EveryOneDayIsDaily ==
    (pc = "done" /\ Len(rules) = 1 /\ IsDailyLike(rules[1])) =>
        /\ Len(plumbing) = Len(AssignedTo(1))
        /\ AssignedTo(1) =
              BeatsBelowLimit(DailyTwin(rules[1]),
                              starting_beat(DailyTwin(rules[1]), start,
                                            LastSeen(DailyTwin(rules[1]))))

C11_Witness ==
    /\ pc = "done"
    /\ Len(rules) = 1
    /\ rules[1].kind = "every-n-days"
    /\ IsDailyLike(rules[1])
    /\ Len(AssignedTo(1)) >= 2

(***************************************************************************)
(* C12: in every step of Schedule::new, within an attempt and across a     *)
(* restart, no entry of the recursion-limit table is removed and the       *)
(* capacity of every date (1 where the date has no entry) does not         *)
(* decrease.                                                               *)
(***************************************************************************)
C12_LimitsNeverDecrease ==
    [][/\ DOMAIN recurse_limits \subseteq DOMAIN recurse_limits'
       /\ \A k \in DOMAIN recurse_limits' :
             LimitOf(recurse_limits', k) >= LimitOf(recurse_limits, k)]_vars

\* The table after restarts, with an entry raised twice and a younger one.
C12_Witness ==
    /\ restarts >= 2
    /\ \E k \in DOMAIN recurse_limits : recurse_limits[k] >= 3
    /\ \E k \in DOMAIN recurse_limits : recurse_limits[k] < 3

(***************************************************************************)
(* C13: on deadlock the allocation is redone from seeding with the raised  *)
(* table and the same start and limit.  The restart step keeps the rules   *)
(* and the window, hands over the raised table and nothing else: the heap  *)
(* and the Schedule of the abandoned attempt are gone, so an attempt       *)
(* begins in the state of a single attempt started with that table, and    *)
(* the Schedule returned holds only placements of the last attempt.        *)
(***************************************************************************)
C13_RestartIsAFreshAttempt ==
    /\ [](pc = "entry" => heap = <<>> /\ slots = EmptyMap)
    /\ [][(pc = "loop" /\ pc' = "entry") =>
            /\ rules' = rules
            /\ start' = start
            /\ limit' = limit
            /\ heap' = <<>>
            /\ slots' = EmptyMap
            /\ \A k \in DOMAIN recurse_limits :
                  /\ k \in DOMAIN recurse_limits'
                  /\ recurse_limits'[k] >= recurse_limits[k]
            /\ \E k \in DOMAIN recurse_limits' :
                  recurse_limits'[k] > LimitOf(recurse_limits, k)]_vars

\* A restart that abandons an attempt which had placements.
C13_Witness ==
    /\ pc = "entry"
    /\ restarts >= 1
    /\ recurse_limits # EmptyMap

(***************************************************************************)
(* C14: at every step the allocator selects the pending Candidate with the *)
(* smallest (date, priority) heap key; among pending Candidates with equal *)
(* heap keys, one with fewer remaining choices is processed later than one *)
(* with more remaining choices.                                            *)
(***************************************************************************)
C14_FewerChoicesLater ==
    (pc = "loop" /\ heap # <<>>) =>
        \A srhythm \in {Popped}, i \in 1..Len(heap) :
            /\ ~KeyLt(heap[i].heap_key, srhythm.heap_key)
            /\ heap[i].heap_key = srhythm.heap_key =>
                  Len(heap[i].remaining_choices)
                      <= Len(srhythm.remaining_choices)

(***************************************************************************)
(* C14, amended: at every step the allocator selects the pending Candidate *)
(* with the smallest (date, priority) heap key; among pending Candidates   *)
(* with equal heap keys, one with fewer remaining choices is processed     *)
(* earlier than one with more remaining choices.                           *)
(***************************************************************************)
C14_FewerChoicesEarlier ==
    (pc = "loop" /\ heap # <<>>) =>
        \A srhythm \in {Popped}, i \in 1..Len(heap) :
            /\ ~KeyLt(heap[i].heap_key, srhythm.heap_key)
            /\ heap[i].heap_key = srhythm.heap_key =>
                  Len(heap[i].remaining_choices)
                      >= Len(srhythm.remaining_choices)

\* Two pending Candidates with the smallest heap key and different numbers
\* of remaining choices.
C14_Witness ==
    /\ pc = "loop"
    /\ \E i, j \in 1..Len(heap) :
          /\ heap[i].heap_key = Popped.heap_key
          /\ heap[j].heap_key = Popped.heap_key
          /\ Len(heap[i].remaining_choices) < Len(heap[j].remaining_choices)

(***************************************************************************)
(* C15: the last_seen given to starting_beat when a rule is seeded is the  *)
(* rule's most recent recorded completion strictly before the window start *)
(* (the window start when there is none): right after seeding, the heap    *)
(* holds, for every rule whose occurrence computed from that last_seen is  *)
(* below limit, exactly that occurrence.                                   *)
(***************************************************************************)
LastSeenBeforeStart(r) ==
    IF latest_event_before(r, start) = None THEN start
    ELSE latest_event_before(r, start)

C15_SeedIgnoresCompletionsFromStartOn ==
    (pc = "loop" /\ slots = EmptyMap /\ restarts = 0) =>
        /\ \A j \in 1..Len(heap) :
              heap[j].original_target =
                  starting_beat(rules[heap[j].rhythm], start,
                                LastSeenBeforeStart(rules[heap[j].rhythm]))
        /\ Len(heap) =
              Cardinality({ i \in 1..Len(rules) :
                  DtodLt(starting_beat(rules[i], start,
                                       LastSeenBeforeStart(rules[i])),
                         limit) })

(***************************************************************************)
(* Vocabulary of the properties of the calls of the Rhythm trait.          *)
(***************************************************************************)
\* next_beat applied n times.
RECURSIVE Iterate(_, _, _)
Iterate(r, dtod, n) ==
    IF n = 0 THEN dtod ELSE next_beat(r, Iterate(r, dtod, n - 1))

\* The variant's predicate on a date: every date for Daily, the day of the
\* month for Monthly, the weekday for WeekDaily.
Matches(r, d) ==
    CASE r.kind = "daily" -> TRUE
      [] r.kind = "monthly" -> DayOfMonth(d) = r.p
      [] r.kind = "week-daily" -> Weekday(d) = r.p
      [] r.kind = "every-n-days" -> FALSE

SkipsWithinSlider(r) == r.kind \in {"monthly", "week-daily"}

C17_AbsorbedBeatIsNotOffered ==
    (/\ call = "starting_beat"
     /\ SkipsWithinSlider(rhythm)
     /\ next_beat(rhythm, given).date - given.date \in 1..rhythm.before)
        => DtodLt(next_beat(rhythm, given), returned)

(***************************************************************************)
(* C18: for every rule variant, every parameter value the rule type can    *)
(* hold and every date d, next_beat(d) is strictly later than d and is the *)
(* nearest later date satisfying the variant's predicate: d + 1 for Daily, *)
(* the next date with day of the month dotm for Monthly, the next date     *)
(* with the weekday for WeekDaily, d + n for EveryNDays; the time of day   *)
(* is carried through.                                                     *)
(***************************************************************************)
C18_NextBeatIsNearestLater ==
    call = "next_beat" =>
        /\ returned.date > given.date
        /\ returned.when = given.when
        /\ rhythm.kind = "daily" => returned.date = given.date + 1
        /\ rhythm.kind = "every-n-days" =>
              returned.date = given.date + rhythm.p
        /\ rhythm.kind \in {"monthly", "week-daily"} =>
              /\ Matches(rhythm, returned.date)
              /\ \A d \in (given.date + 1)..(returned.date - 1) :
                    ~Matches(rhythm, d)

(***************************************************************************)
(* C19: for Daily, Monthly and WeekDaily rules prev_beat(d) is the nearest *)
(* date strictly earlier than d that satisfies the variant's predicate;    *)
(* for every d that satisfies the predicate prev_beat(next_beat(d)) = d    *)
(* and next_beat(prev_beat(d)) = d.                                        *)
(***************************************************************************)
C19_PrevBeatIsNearestEarlier ==
    rhythm.kind \in {"daily", "monthly", "week-daily"} =>
        /\ call = "prev_beat" =>
              /\ returned.date < given.date
              /\ returned.when = given.when
              /\ Matches(rhythm, returned.date)
              /\ \A d \in (returned.date + 1)..(given.date - 1) :
                    ~Matches(rhythm, d)
              /\ Matches(rhythm, given.date) =>
                    next_beat(rhythm, returned) = given
        /\ (call = "next_beat" /\ Matches(rhythm, given.date)) =>
              prev_beat(rhythm, returned) = given

\* prev_beat of a Monthly rule from its day of January back into December.
C19_Witness ==
    /\ call = "prev_beat"
    /\ rhythm.kind = "monthly"
    /\ Matches(rhythm, given.date)
    /\ returned.date < 31

(***************************************************************************)
(* C20: for an EveryNDays(n) rule prev_beat(d) = d + n, the date that      *)
(* next_beat(d) returns, for every date d.                                 *)
(***************************************************************************)
C20_EveryNDaysPrevAddsN ==
    (call = "prev_beat" /\ rhythm.kind = "every-n-days") =>
        /\ returned.date = given.date + rhythm.p
        /\ returned = next_beat(rhythm, given)

C20_Witness ==
    /\ call = "prev_beat"
    /\ rhythm.kind = "every-n-days"
    /\ rhythm.p >= 2
    /\ returned.date > given.date

----------------------------------------------------------------------------
(***************************************************************************)
(* C21: a SmoothRhythm fresh from new_rc for target t of a rhythm with     *)
(* Slider (b, a) has the heap key (t, 0) and b + a remaining choices:      *)
(* t-1 .. t-b at priorities 1 .. b and t+1 .. t+a at priorities b+1 ..     *)
(* b+a, popped in that order; with Slider (0, 0) the only choice is t.     *)
(* A SmoothRhythm is fresh as long as nothing is passed over.              *)
(***************************************************************************)
C21_NewCandidateChoices ==
    \A i \in 1..Len(heap) :
        LET s == heap[i]
            t == s.original_target
            b == slider(rules[s.rhythm]).before
            a == slider(rules[s.rhythm]).after
        IN s.passed_over_choices = <<>> =>
              /\ s.heap_key = <<t, 0>>
              /\ Len(s.remaining_choices) = b + a
              /\ \A j \in 1..b :
                    s.remaining_choices[a + b + 1 - j]
                        = <<Dtod(t.date - j, t.when), j>>
              /\ \A j \in 1..a :
                    s.remaining_choices[a + 1 - j]
                        = <<Dtod(t.date + j, t.when), b + j>>

\* A fresh SmoothRhythm of a rhythm with Slider (2, 1) is on the heap.
C21_Witness ==
    \E i \in 1..Len(heap) :
        /\ heap[i].passed_over_choices = <<>>
        /\ slider(rules[heap[i].rhythm]) = [before |-> 2, after |-> 1]
        /\ Len(heap[i].remaining_choices) = 3

(***************************************************************************)
(* C22: plumbing lists every assignment of the returned schedule exactly   *)
(* once, by non-decreasing slot key (date and time of day) and, within a   *)
(* slot, in the order of assignment, which is the order of the slot's Vec: *)
(* an assignment is pushed at the end of its slot.  Porcelain has as many  *)
(* entries, the entry of the same assignment at the same position.         *)
(***************************************************************************)
\* The position in the output of the i-th assignment of slot k.
OutputPosition(k, i) ==
    Cardinality({ p \in UNION { { <<k2, i2>> : i2 \in 1..Len(slots[k2]) } :
                                  k2 \in DOMAIN slots } :
                    DtodLt(p[1], k) \/ (p[1] = k /\ p[2] <= i) })

C22_OutputListsAssignmentsInOrder ==
    /\ [](pc = "done" =>
            /\ Len(plumbing) = Cardinality(UNION {
                   { <<k, i>> : i \in 1..Len(slots[k]) } : k \in DOMAIN slots })
            /\ Len(porcelain) = Len(plumbing)
            /\ \A k \in DOMAIN slots : \A i \in 1..Len(slots[k]) :
                  /\ plumbing[OutputPosition(k, i)]
                        = [id |-> slots[k][i].rhythm, when |-> k]
                  /\ porcelain[OutputPosition(k, i)]
                        = <<human_line(rules[slots[k][i].rhythm]), "@", k>>
            /\ \A j \in 1..(Len(plumbing) - 1) :
                  DtodLe(plumbing[j].when, plumbing[j + 1].when))
    /\ [][pc' = "loop" /\ pc = "loop" =>
            \A k \in DOMAIN slots :
                /\ k \in DOMAIN slots'
                /\ SubSeq(slots'[k], 1, Len(slots[k])) = slots[k]]_vars

\* A returned schedule with two assignments in one slot and a later slot.
C22_Witness ==
    /\ pc = "done"
    /\ \E k1, k2 \in DOMAIN slots :
          /\ DtodLt(k1, k2)
          /\ Len(slots[k1]) >= 2
          /\ slots[k1][1].rhythm # slots[k1][2].rhythm
          /\ Len(slots[k2]) >= 1

(***************************************************************************)
(* C23: ID::new(s) returns an ID iff s, without one leading "id:" if it    *)
(* has one, has 4 to 8 characters, all ASCII letters or digits; when an ID *)
(* is built from "id:X" the same ID is built from X, and when one is built *)
(* from an X that has no prefix the same ID is built from "id:X".          *)
(***************************************************************************)
C23_IdIffFourToEightAlphanumerics ==
    call = "ID::new" =>
        LET X == IF starts_with(given, <<"i", "d", ":">>)
                 THEN SubSeq(given, 4, Len(given)) ELSE given
            wellformed ==
                /\ Len(X) \in 4..8
                /\ \A j \in 1..Len(X) :
                      X[j] \in {"7", "Z", "a", "d", "i"}
        IN /\ returned # None <=> wellformed
           /\ returned # None => returned = [id |-> X]
           /\ returned # None => ID_new(X) = returned
           /\ returned # None => ID_new(<<"i", "d", ":">> \o X) = returned

\* An ID of eight characters was built from a string with the prefix.
C23_Witness ==
    /\ call = "ID::new"
    /\ starts_with(given, <<"i", "d", ":">>)
    /\ returned # None
    /\ Len(returned.id) = 8
    /\ returned.id[8] = "7"

(***************************************************************************)
(* C24: LineItem::new(x.repr()) = x for every LineItem x that              *)
(* LineItem::new produces.                                                 *)
(***************************************************************************)
C24_ReprRoundTrip ==
    (call = "LineItem::new" /\ returned # None) =>
        LineItem_new(repr(returned)) = returned

(***************************************************************************)
(* C25: next_best_choice on a SmoothRhythm with remaining choices yields   *)
(* one whose heap key is the remaining choice of lowest priority, whose    *)
(* remaining choices are the old ones without it, whose passed-over        *)
(* choices are the old ones followed by the old heap key's date, and whose *)
(* original target and rhythm are the old ones; when the SmoothRhythm      *)
(* popped has no remaining choice, no advanced SmoothRhythm is pushed.     *)
(***************************************************************************)
C25_AdvanceToNextChoice ==
    /\ [](\A i \in 1..Len(heap) :
            LET s == heap[i]
                n == next_best_choice(s)
                old == s.remaining_choices
            IN old # <<>> =>
                  \E j \in 1..Len(old) :
                      /\ n.heap_key = old[j]
                      /\ \A h \in 1..Len(old) :
                            h # j => old[j][2] < old[h][2]
                      /\ n.remaining_choices
                            = SubSeq(old, 1, j - 1) \o SubSeq(old, j + 1, Len(old))
                      /\ n.passed_over_choices
                            = s.passed_over_choices \o <<s.heap_key[1]>>
                      /\ n.original_target = s.original_target
                      /\ n.rhythm = s.rhythm)
    /\ [][(pc = "loop" /\ heap # <<>> /\ Popped.remaining_choices = <<>>) =>
            \A i \in 1..Len(heap') :
                \/ heap'[i].passed_over_choices = <<>>
                \/ \E j \in 1..Len(heap) : heap[j] = heap'[i]]_vars

\* An advanced SmoothRhythm that can be advanced once more is pending.
C25_Witness ==
    \E i \in 1..Len(heap) :
        /\ Len(heap[i].passed_over_choices) >= 1
        /\ Len(heap[i].remaining_choices) >= 2

EstimateDates(s) ==
    LET occurs(d) ==
            Cardinality({ j \in 1..Len(s.remaining_choices) :
                            s.remaining_choices[j][1] = d })
            + (IF s.heap_key[1] = d THEN 1 ELSE 0)
            + Cardinality({ j \in 1..Len(s.passed_over_choices) :
                              s.passed_over_choices[j] = d })
    IN [d \in { s.remaining_choices[j][1] : j \in 1..Len(s.remaining_choices) }
                \cup {s.heap_key[1]}
                \cup { s.passed_over_choices[j] :
                         j \in 1..Len(s.passed_over_choices) } |-> occurs(d)]

RECURSIVE WeightedSum(_, _, _)
WeightedSum(weight, value, ds) ==
    IF ds = {} THEN 0
    ELSE LET d == CHOOSE x \in ds : TRUE
         IN weight[d] * value[d] + WeightedSum(weight, value, ds \ {d})

C27_DemandIsMeanOrOwnLimit ==
    \A i \in 1..Len(heap) :
        LET s == heap[i]
            bag == EstimateDates(s)
            ones == [d \in DOMAIN bag |-> 1]
            cap == [d \in DOMAIN bag |->
                      IF d \in DOMAIN recurse_limits
                      THEN recurse_limits[d] ELSE 1]
            S == WeightedSum(bag, cap, DOMAIN bag)
            N == WeightedSum(bag, ones, DOMAIN bag)
            c == cap[s.heap_key[1]]
            demand == dtod_limit(s, recurse_limits)
        IN /\ demand >= 1
           /\ demand >= c
           /\ \E q \in 0..S :
                 /\ q * N <= S
                 /\ S < (q + 1) * N
                 /\ demand = IF q >= c THEN q ELSE c

\* The mean decides: a pending SmoothRhythm whose estimate is above the limit
\* of its own date, which other dates of its neighbourhood exceed.
C27_Witness ==
    \E i \in 1..Len(heap) :
        /\ dtod_limit(heap[i], recurse_limits)
                > LimitOf(recurse_limits, heap[i].heap_key[1])

(***************************************************************************)
(* C28, as stated: on deadlock water_mark is 1 + the least current limit   *)
(* among the passed-over dates of the SmoothRhythm, and 1 + its dtod_limit *)
(* only when it has passed over nothing.  The water mark is read off the   *)
(* table the restart begins with: every entry is the greater of its old    *)
(* value and the water mark.                                               *)
(***************************************************************************)
Least(S) == CHOOSE m \in S : \A x \in S : m <= x

\* The limits of the passed-over dates of s.
PassedOverLimits(s) ==
    { LimitOf(recurse_limits, s.passed_over_choices[i]) :
        i \in 1..Len(s.passed_over_choices) }

\* The SmoothRhythm popped is on a saturated date and has no choice left.
Deadlocked ==
    /\ pc = "loop"
    /\ heap # <<>>
    /\ Popped.remaining_choices = <<>>
    /\ SlotLen(slots, Popped.heap_key[1])
          >= dtod_limit(Popped, recurse_limits)

\* The step is a restart that begins with a table filled to wm.
RestartsFilledTo(wm) ==
    /\ pc' = "entry"
    /\ \A k \in DOMAIN recurse_limits' :
          recurse_limits'[k]
              = IF LimitOf(recurse_limits, k) < wm
                THEN wm ELSE LimitOf(recurse_limits, k)

C28_WaterMarkFromPassedOverOnly ==
    [][Deadlocked =>
          RestartsFilledTo(
              1 + (IF Popped.passed_over_choices = <<>>
                   THEN dtod_limit(Popped, recurse_limits)
                   ELSE Least(PassedOverLimits(Popped))))]_vars

(***************************************************************************)
(* C28, amended: on deadlock water_mark is 1 + the least of the            *)
(* SmoothRhythm's dtod_limit and the current limits of its passed-over     *)
(* dates; with no passed-over date it is 1 + dtod_limit.                   *)
(***************************************************************************)
C28_WaterMarkFromDemandAndPassedOver ==
    [][Deadlocked =>
          RestartsFilledTo(
              1 + Least({dtod_limit(Popped, recurse_limits)}
                            \cup PassedOverLimits(Popped)))]_vars

\* A deadlock of a SmoothRhythm whose dtod_limit is below the limit of each
\* of its passed-over dates.
C28_Witness ==
    /\ Deadlocked
    /\ restarts < MaxRestarts
    /\ Popped.passed_over_choices # <<>>
    /\ \A x \in PassedOverLimits(Popped) :
          dtod_limit(Popped, recurse_limits) < x

(***************************************************************************)
(* C29: the deadlock relaxation sets every entry of the table that is      *)
(* below water_mark to water_mark and leaves the entries at or above it as *)
(* they are; it gives no entry to a date that has none: the table of the   *)
(* next attempt has the dates it had, and the dates of the deadlocked      *)
(* SmoothRhythm, which dtod_limit entered with limit 1 before the          *)
(* relaxation.                                                             *)
(***************************************************************************)
C29_FillRaisesToWaterMark ==
    [][(pc = "loop" /\ pc' = "entry") =>
        /\ DOMAIN recurse_limits'
              = DOMAIN recurse_limits
                  \cup { Popped.remaining_choices[j][1] :
                           j \in 1..Len(Popped.remaining_choices) }
                  \cup {Popped.heap_key[1]}
                  \cup { Popped.passed_over_choices[j] :
                           j \in 1..Len(Popped.passed_over_choices) }
        /\ \E water_mark \in 2..(MaxRestarts + 2) :
              \A k \in DOMAIN recurse_limits' :
                  LET water == IF k \in DOMAIN recurse_limits
                               THEN recurse_limits[k] ELSE 1
                  IN /\ water < water_mark => recurse_limits'[k] = water_mark
                     /\ water >= water_mark => recurse_limits'[k] = water]_vars

\* A restart whose table has an entry above the water mark of the last
\* relaxation next to one raised to it, and no entry for the last day of
\* the window.
C29_Witness ==
    /\ pc = "entry"
    /\ restarts >= 2
    /\ \E k1, k2 \in DOMAIN recurse_limits :
          recurse_limits[k1] < recurse_limits[k2]
    /\ \A k \in DOMAIN recurse_limits : k.date # limit.date - 1

(***************************************************************************)
(* C30: a rhythm whose starting beat is >= limit has no SmoothRhythm, and  *)
(* the next SmoothRhythm of a rhythm is pushed only with a target < limit: *)
(* every SmoothRhythm on the heap or in a slot has an original target t    *)
(* with start <= t < limit.                                                *)
(***************************************************************************)
C30_TargetsInsideWindow ==
    /\ \A i \in 1..Len(heap) :
          /\ DtodLe(start, heap[i].original_target)
          /\ DtodLt(heap[i].original_target, limit)
    /\ \A k \in DOMAIN slots : \A i \in 1..Len(slots[k]) :
          /\ DtodLe(start, slots[k][i].original_target)
          /\ DtodLt(slots[k][i].original_target, limit)
    /\ \A i \in 1..Len(rules) :
          (pc \in {"loop", "done"}
             /\ DtodLe(limit, starting_beat(rules[i], start, LastSeen(rules[i]))))
          => /\ \A j \in 1..Len(heap) : heap[j].rhythm # i
             /\ \A p \in Placed : p.s.rhythm # i

\* A returned schedule in which one rhythm has no SmoothRhythm, its starting
\* beat being at or after limit, and another has one on the last day of the
\* window, whose next beat was not pushed.
C30_Witness ==
    /\ pc = "done"
    /\ \E i \in 1..Len(rules) :
          /\ DtodLe(limit, starting_beat(rules[i], start, LastSeen(rules[i])))
          /\ \A p \in Placed : p.s.rhythm # i
    /\ \E p \in Placed :
          /\ p.s.original_target.date = limit.date - 1
          /\ DtodLe(limit, next_beat(rules[p.s.rhythm], p.s.original_target))

(***************************************************************************)
(* C31, as stated: recursive_new restarts only when the SmoothRhythm       *)
(* popped is on a saturated date and has no remaining choice, every date   *)
(* of its choice set (target - before .. target + after) having been tried *)
(* and found saturated, so that each holds an assignment of this attempt;  *)
(* while a rhythm's SmoothRhythm is pending and not placed, the number of  *)
(* its remaining choices does not increase.                                *)
(***************************************************************************)
\* The dates new_rc gives a SmoothRhythm to choose from.
ChoiceSet(s) ==
    { Dtod(s.original_target.date + j, s.original_target.when) :
        j \in (0 - rules[s.rhythm].before)..rules[s.rhythm].after }

C31_RestartAfterEveryChoiceDateTried ==
    /\ [][(pc = "loop" /\ pc' = "entry") =>
            \A s \in {Popped} :
                /\ s.remaining_choices = <<>>
                /\ SlotLen(slots, s.heap_key[1])
                      >= dtod_limit(s, recurse_limits)
                /\ \A d \in ChoiceSet(s) : SlotLen(slots, d) >= 1]_vars
    /\ [][(pc = "loop" /\ pc' = "loop") =>
            \A i \in 1..Len(heap) : \A j \in 1..Len(heap') :
                (heap[i].rhythm = heap'[j].rhythm
                   /\ heap[i].rhythm \notin
                         { slots'[k][Len(slots'[k])].rhythm :
                             k \in { x \in DOMAIN slots' :
                                       Len(slots'[x]) > SlotLen(slots, x) } })
                => Len(heap'[j].remaining_choices)
                      <= Len(heap[i].remaining_choices)]_vars

(***************************************************************************)
(* C31, amended: recursive_new restarts only when the SmoothRhythm popped  *)
(* is on a saturated date and has no remaining choice: by then it has      *)
(* passed over as many dates as its Slider gives it choices, a choice      *)
(* before start having been tried as start, and each of them holds an      *)
(* assignment of this attempt.  While a rhythm's SmoothRhythm is pending   *)
(* and not placed, the number of its remaining choices does not increase.  *)
(***************************************************************************)
\* The rhythm placed by the step, as a set: empty if the step places none.
PlacedByStep ==
    { slots'[k][Len(slots'[k])].rhythm :
        k \in { x \in DOMAIN slots' : Len(slots'[x]) > SlotLen(slots, x) } }

C31_RestartOnlyWhenChoicesExhausted ==
    /\ [][(pc = "loop" /\ pc' = "entry") =>
            \A s \in {Popped} :
                /\ s.remaining_choices = <<>>
                /\ SlotLen(slots, s.heap_key[1])
                      >= dtod_limit(s, recurse_limits)
                /\ Len(s.passed_over_choices)
                      = rules[s.rhythm].before + rules[s.rhythm].after
                /\ \A j \in 1..Len(s.passed_over_choices) :
                      SlotLen(slots, s.passed_over_choices[j]) >= 1
                /\ { s.passed_over_choices[j] :
                       j \in 1..Len(s.passed_over_choices) }
                        \cup {s.heap_key[1]}
                      = { IF DtodLt(d, start) THEN start ELSE d :
                            d \in ChoiceSet(s) }]_vars
    /\ [][(pc = "loop" /\ pc' = "loop") =>
            \A i \in 1..Len(heap) : \A j \in 1..Len(heap') :
                (heap[i].rhythm = heap'[j].rhythm
                   /\ heap[i].rhythm \notin PlacedByStep)
                => Len(heap'[j].remaining_choices)
                      <= Len(heap[i].remaining_choices)]_vars

\* A deadlock of a SmoothRhythm that has passed over a date, one of its
\* choices lying before start.
C31_Witness ==
    /\ Deadlocked
    /\ restarts < MaxRestarts
    /\ Len(Popped.passed_over_choices) >= 1
    /\ \E d \in ChoiceSet(Popped) : DtodLt(d, start)

(***************************************************************************)
(* C32: no entry of recurse_limits is ever above the number of rhythms     *)
(* plus one.                                                               *)
(***************************************************************************)
C32_LimitsBoundedByRhythms ==
    \A k \in DOMAIN recurse_limits : recurse_limits[k] <= Len(rules) + 1

(***************************************************************************)
(* C33: next_beat and prev_beat change only the date of a DateTimeOfDay:   *)
(* the time of day of the result is that of the argument, for every kind   *)
(* of rhythm.                                                              *)
(***************************************************************************)
C33_BeatsKeepTimeOfDay ==
    call \in {"next_beat", "prev_beat"} =>
        /\ DOMAIN returned = {"date", "when"}
        /\ returned.when = given.when

\* prev_beat of a WeekDaily rhythm moved an afternoon to another date.
C33_Witness ==
    /\ call = "prev_beat"
    /\ rhythm.kind = "week-daily"
    /\ given.when = Afternoon
    /\ returned.date # given.date

(***************************************************************************)
(* C34: every restart begins with a table in which the date of the         *)
(* deadlocked SmoothRhythm's heap key or one of its passed-over dates has  *)
(* a limit strictly above the one it had when the deadlock was detected    *)
(* (1 where it had none), and in which no entry is lower than it was: no   *)
(* two attempts start from the same table.                                 *)
(***************************************************************************)
C34_RestartRaisesTable ==
    [][(pc = "loop" /\ pc' = "entry") =>
        /\ \E k \in {Popped.heap_key[1]}
                      \cup { Popped.passed_over_choices[j] :
                               j \in 1..Len(Popped.passed_over_choices) } :
              /\ k \in DOMAIN recurse_limits'
              /\ recurse_limits'[k]
                    > (IF k \in DOMAIN recurse_limits
                       THEN recurse_limits[k] ELSE 1)
        /\ \A k \in DOMAIN recurse_limits :
              /\ k \in DOMAIN recurse_limits'
              /\ recurse_limits'[k] >= recurse_limits[k]
        /\ recurse_limits' # recurse_limits]_vars

\* The third attempt begins: its table has an entry raised twice.
C34_Witness ==
    /\ pc = "entry"
    /\ restarts = 2
    /\ \E k \in DOMAIN recurse_limits : recurse_limits[k] >= 3

(***************************************************************************)
(* C35: in the returned schedule a Monthly or WeekDaily rhythm has one     *)
(* assignment for each date from its starting beat to below limit that     *)
(* matches its day of the month or weekday: as many assignments as such    *)
(* dates, and for each such date exactly one assignment with that date as  *)
(* original target.                                                        *)
(***************************************************************************)
\* The assignments of rhythm i: slot key and position in the slot.
AssignmentsOf(i) ==
    UNION { { <<k, j>> : j \in { x \in 1..Len(slots[k]) :
                                   slots[k][x].rhythm = i } } :
              k \in DOMAIN slots }

\* The beats of rhythm i in [starting beat, limit).
IdealOccurrences(i) ==
    { Dtod(d, SeedTarget(i).when) :
        d \in { x \in SeedTarget(i).date..limit.date :
                  /\ Matches(rules[i], x)
                  /\ DtodLt(Dtod(x, SeedTarget(i).when), limit) } }

C35_EveryOccurrenceAssignedOnce ==
    pc = "done" =>
        \A i \in 1..Len(rules) :
            rules[i].kind \in {"monthly", "week-daily"} =>
                /\ Cardinality(AssignmentsOf(i))
                      = Cardinality(IdealOccurrences(i))
                /\ \A t \in IdealOccurrences(i) :
                      Cardinality({ a \in AssignmentsOf(i) :
                                      slots[a[1]][a[2]].original_target = t })
                          = 1

\* A returned schedule in which a WeekDaily rhythm has two beats and one of
\* them sits on another date than its target.
C35_Witness ==
    /\ pc = "done"
    /\ \E i \in 1..Len(rules) :
          /\ rules[i].kind = "week-daily"
          /\ Cardinality(IdealOccurrences(i)) = 2
          /\ \E a \in AssignmentsOf(i) :
                slots[a[1]][a[2]].original_target # a[1]

(***************************************************************************)
(* C36: in the returned schedule no rhythm has two assignments on the same *)
(* date: the entries of a slot are of different rhythms, and two slots of  *)
(* the same calendar date hold no rhythm in common.                        *)
(***************************************************************************)
C36_NoRhythmTwiceOnADate ==
    pc = "done" =>
        \A i \in 1..Len(rules) :
            \A a, b \in AssignmentsOf(i) :
                a[1].date = b[1].date => a = b

(***************************************************************************)
(* basic_schedule.rs: Schedule::new and add_rhythm.  A slot of the basic   *)
(* schedule is the Vec of the rhythms pushed on one DateTimeOfDay.         *)
(***************************************************************************)
basic_slot_push(bs, when, i) ==
    [k \in DOMAIN bs \cup {when} |->
        IF k = when
        THEN (IF when \in DOMAIN bs THEN Append(bs[when], i) ELSE <<i>>)
        ELSE bs[k]]

\* `while when < self.start { when = rhythm.next_beat(when); }`
RECURSIVE basic_skip_to_start(_, _)
basic_skip_to_start(r, when) ==
    IF DtodLt(when, start)
    THEN basic_skip_to_start(r, next_beat(r, when))
    ELSE when

\* `while when < self.limit { .. slot.elements.push(rhythm) }`
RECURSIVE basic_push_beats(_, _, _)
basic_push_beats(bs, i, when) ==
    IF DtodLt(when, limit)
    THEN basic_push_beats(basic_slot_push(bs, when, i), i,
                          next_beat(rules[i], when))
    ELSE bs

\* Variant: the first beat is last_seen itself.
basic_add_rhythm_from_last_seen(bs, last_seen, i) ==
    basic_push_beats(bs, i, basic_skip_to_start(rules[i], last_seen))

basic_add_rhythm(bs, last_seen, i) ==
    basic_push_beats(bs, i,
        basic_skip_to_start(rules[i], next_beat(rules[i], last_seen)))

\* The loop of Schedule::new over the first n rhythms.
RECURSIVE basic_schedule_after(_)
basic_schedule_after(n) ==
    IF n = 0 THEN EmptyMap
    ELSE basic_add_rhythm(basic_schedule_after(n - 1), LastSeen(rules[n]), n)

basic_schedule_new == basic_schedule_after(Len(rules))

(***************************************************************************)
(* C37: when every rhythm has Slider (0,0) the returned smooth schedule    *)
(* and the basic schedule of the same rhythms, events, start and limit     *)
(* hold every rhythm the same number of times on every DateTimeOfDay.      *)
(***************************************************************************)
SmoothCount(k, i) ==
    IF k \in DOMAIN slots
    THEN Cardinality({ x \in 1..Len(slots[k]) : slots[k][x].rhythm = i })
    ELSE 0

BasicCount(bs, k, i) ==
    IF k \in DOMAIN bs
    THEN Cardinality({ x \in 1..Len(bs[k]) : bs[k][x] = i })
    ELSE 0

AllSlidersZero ==
    \A i \in 1..Len(rules) : rules[i].before = 0 /\ rules[i].after = 0

C37_SmoothEqualsBasicWithoutSliders ==
    (pc = "done" /\ AllSlidersZero) =>
        \A bs \in {basic_schedule_new} :
            \A k \in DOMAIN slots \cup DOMAIN bs :
                \A i \in 1..Len(rules) :
                    SmoothCount(k, i) = BasicCount(bs, k, i)

\* A returned schedule of rhythms without sliders that took a restart and
\* holds two rhythms on one date.
C37_Witness ==
    /\ pc = "done"
    /\ AllSlidersZero
    /\ restarts >= 1
    /\ \E k \in DOMAIN slots : Len(slots[k]) >= 2
    /\ \E k \in DOMAIN basic_schedule_new : Len(basic_schedule_new[k]) >= 2

(***************************************************************************)
(* C38: in the returned schedule two assignments of an EveryNDays(n)       *)
(* rhythm with Slider (b, a) that follow one another in date order are on  *)
(* dates d1 and d2 with d1 + n - b <= d2 <= d1 + n + a.                    *)
(***************************************************************************)
\* Assignments a and b of rhythm i follow one another in the output.
ConsecutiveAssignments(i, a, b) ==
    /\ a # b
    /\ a[1].date <= b[1].date
    /\ ~\E c \in AssignmentsOf(i) :
          a[1].date < c[1].date /\ c[1].date < b[1].date

C38_EveryNDaysSpacing ==
    pc = "done" =>
        \A i \in 1..Len(rules) :
            rules[i].kind = "every-n-days" =>
                \A a, b \in AssignmentsOf(i) :
                    ConsecutiveAssignments(i, a, b) =>
                        /\ a[1].date + rules[i].p - rules[i].before
                              <= b[1].date
                        /\ b[1].date
                              <= a[1].date + rules[i].p + rules[i].after

\* A returned schedule in which an EveryNDays rhythm with a Slider has two
\* consecutive assignments that are not n days apart, the later one placed
\* off its target.
C38_Witness ==
    /\ pc = "done"
    /\ \E i \in 1..Len(rules) :
          /\ rules[i].kind = "every-n-days"
          /\ rules[i].before >= 1
          /\ \E a, b \in AssignmentsOf(i) :
                /\ ConsecutiveAssignments(i, a, b)
                /\ b[1].date # a[1].date + rules[i].p
                /\ slots[b[1]][b[2]].original_target # b[1]

(***************************************************************************)
(* C39: every SmoothRhythm of an attempt, on the heap or placed in a slot, *)
(* has as many remaining choices, plus its current one, plus passed-over   *)
(* choices as 1 + before + after of its rhythm's Slider; this is the       *)
(* `total` dtod_limit divides by, so it is the same for every SmoothRhythm *)
(* of an occurrence and at least 1.                                        *)
(***************************************************************************)
SmoothRhythmsOfAttempt ==
    { heap[j] : j \in 1..Len(heap) } \cup { e.s : e \in Placed }

C39_ChoiceCountIsSliderWidth ==
    \A s \in SmoothRhythmsOfAttempt :
        /\ Len(s.remaining_choices) + 1 + Len(s.passed_over_choices)
              = 1 + rules[s.rhythm].before + rules[s.rhythm].after
        /\ Len(VisitedDtods(s))
              = 1 + rules[s.rhythm].before + rules[s.rhythm].after
        /\ Len(VisitedDtods(s)) >= 1

\* A popped SmoothRhythm with Slider (2,1) that has moved on twice and has
\* one choice left.
C39_Witness ==
    /\ pc = "loop"
    /\ heap # <<>>
    /\ rules[Popped.rhythm].before = 2
    /\ rules[Popped.rhythm].after = 1
    /\ Len(Popped.passed_over_choices) = 2
    /\ Len(Popped.remaining_choices) = 1

============================================================================
